---- MODULE Spec2Model ----
(***************************************************************************)
(* External merge sort of fixed-size records (extsort.c).                  *)
(*                                                                         *)
(* A session buffers pushed records, spills the sorted buffer to an        *)
(* unlinked temporary file (a run, blk_t) whenever the memory estimate     *)
(* would pass max_mem, and after extsort_sort merges the runs through a    *)
(* binary heap of run heads, one record per extsort_shift.                 *)
(*                                                                         *)
(* Storage is modelled as blocks: heapmem maps the id of every live        *)
(* malloc'ed block to its content, so that pointer swaps, frees and leaks  *)
(* are visible.  A record's bytes are abstracted to one integer value and  *)
(* the block's allocation size.                                            *)
(***************************************************************************)
EXTENDS Integers, Sequences, FiniteSets, Bags, TLC

\* ---------------------------------------------------------------- bounds
MaxPush == 4          \* pushes per session
MaxVal  == 3          \* record values are 1..MaxVal
MaxPushAny == 2       \* pushes per session of the caller of SpecAnyOrder

\* ------------------------------------------------------- program constants
PtrSize       == 8            \* sizeof(void*) in extsort_push's delta
DefaultMaxMem == 100000000    \* es->max_mem = 100e6 in extsort_alloc
NULL          == 0            \* the null pointer, as a block id
ClosedFd      == -1           \* blk->fd of a run whose file is closed

Values     == 1..MaxVal
Uninit     == 0                \* content of a block malloc'ed and not yet written
DatSizes   == {4, 8}           \* record sizes a caller configures
MemParses  == {0, 12, 40}      \* results of parse_mem_string (0: unparsable)
Cmps       == {"asc", "desc"}  \* comparators a caller configures
Faults     == {"none", "mkstemp", "fchmod", "write", "lseek_flush",
               "lseek_sort", "read", "short_read", "close"}

VARIABLES
    phase,       \* "live", "destroyed", "fatal" (error()/assert abort),
                 \* "crash" (null dereference), "undef" (record bytes torn)
    dat_size,    \* es->dat_size
    cmp,         \* es->cmp: "NULL", "asc" or "desc"
    max_mem,     \* es->max_mem
    tmp_prefix,  \* es->tmp_prefix # NULL
    mem,         \* es->mem
    buf,         \* es->buf[0..nbuf-1]: block ids of the buffered records
    buf_alloc,   \* es->buf # NULL
    blk,         \* es->blk[0..nblk-1]: the runs
    tmp_dat,     \* es->tmp_dat: block id of the scratch slot
    bhp_init,    \* es->bhp # NULL
    bhp,         \* es->bhp->dat[0..ndat-1]: run indices, heap order
    heapmem,     \* live malloc'ed blocks: id -> [val, size]
    next_id,     \* next block id malloc hands out
    fds,         \* descriptors the process holds open
    visible,     \* temporary files that have a directory entry
    pushed,      \* history: values of the records pushed, in push order
    out,         \* history: values the caller read from extsort_shift's results
    ret,         \* the pointer the last extsort_shift returned
    struck,      \* history: the system call that failed in this session, or "none"
    cause,       \* history: the error() or assert that ended the process, or "none"
    bad_close,   \* history: close() was called on a descriptor that is not open
    bad_free     \* history: free() was called on a block that is not allocated

cfgvars == <<dat_size, cmp, max_mem, tmp_prefix>>
histvars == <<struck, cause, bad_close, bad_free>>
vars == <<phase, dat_size, cmp, max_mem, tmp_prefix, mem, buf, buf_alloc, blk,
          tmp_dat, bhp_init, bhp, heapmem, next_id, fds, visible, pushed, out, ret,
          struck, cause, bad_close, bad_free>>

\* -------------------------------------------------------------- helpers
nbuf == Len(buf)
nblk == Len(blk)

\* The fields a handler updates, threaded through the helpers it calls.
CurState ==
    [phase |-> phase, mem |-> mem, buf |-> buf, blk |-> blk, bhp |-> bhp,
     heapmem |-> heapmem, next_id |-> next_id, fds |-> fds, visible |-> visible,
     struck |-> struck, cause |-> cause, bad_close |-> bad_close]

Apply(s) ==
    /\ phase' = s.phase
    /\ mem' = s.mem
    /\ buf' = s.buf
    /\ blk' = s.blk
    /\ bhp' = s.bhp
    /\ heapmem' = s.heapmem
    /\ next_id' = s.next_id
    /\ fds' = s.fds
    /\ visible' = s.visible
    /\ struck' = s.struck
    /\ cause' = s.cause
    /\ bad_close' = s.bad_close

\* The process ends inside the call (a null dereference, torn record bytes).
Abort(s, how) == [s EXCEPT !.phase = how]

\* error() after the system call f failed.
Fail(s, f) == [s EXCEPT !.phase = "fatal", !.struck = f, !.cause = f]

Free(M, ids) == [b \in (DOMAIN M) \ ids |-> M[b]]
Malloc(M, id, size) == M @@ (id :> [val |-> Uninit, size |-> size])

\* The configured comparator applied to two record contents.  It is a total
\* order on the contents: records that compare equal are byte-identical, so
\* the order qsort and the heap leave among them is not observable.
Cmp(c, a, b) == IF c = "asc" THEN a - b ELSE b - a

\* blk_is_smaller on runs a and b of run table B, with memory M.
blk_is_smaller_gt(a, b, B, M) ==
    Cmp(cmp, M[B[a].dat].val, M[B[b].dat].val) > 0

blk_is_smaller_asc(a, b, B, M) ==
    M[B[a].dat].val < M[B[b].dat].val

blk_is_smaller(a, b, B, M) ==
    Cmp(cmp, M[B[a].dat].val, M[B[b].dat].val) < 0

\* qsort(es->buf, es->nbuf, sizeof(void*), es->cmp): the block ids of s ordered
\* by the comparator on their contents.
QInsert_front(s, b, M) == <<b>> \o s

RECURSIVE QInsert(_, _, _)
QInsert(s, b, M) ==
    IF s = <<>> THEN <<b>>
    ELSE IF Cmp(cmp, M[b].val, M[Head(s)].val) < 0 THEN <<b>> \o s
    ELSE <<Head(s)>> \o QInsert(Tail(s), b, M)

RECURSIVE qsort(_, _)
qsort(s, M) ==
    IF s = <<>> THEN <<>>
    ELSE QInsert(qsort(SubSeq(s, 1, Len(s) - 1), M), s[Len(s)], M)

\* ------------------------------------------------------------- the heap
\* kheap.h (KHEAP_INIT): a binary heap in an array, smallest at index 0.
RECURSIVE SiftUp(_, _, _, _, _)
SiftUp(h, i, x, B, M) ==
    IF i > 1 /\ blk_is_smaller(x, h[i \div 2], B, M)
    THEN SiftUp([h EXCEPT ![i] = h[i \div 2]], i \div 2, x, B, M)
    ELSE [h EXCEPT ![i] = x]

khp_insert(h, x, B, M) == SiftUp(Append(h, x), Len(h) + 1, x, B, M)

RECURSIVE khp_heapify(_, _, _, _)
khp_heapify(h, i, B, M) ==
    LET l  == 2 * i
        r  == 2 * i + 1
        e1 == IF l <= Len(h) /\ blk_is_smaller(h[l], h[i], B, M) THEN l ELSE i
        e2 == IF r <= Len(h) /\ blk_is_smaller(h[r], h[e1], B, M) THEN r ELSE e1
    IN  IF e2 = i THEN h
        ELSE khp_heapify([h EXCEPT ![i] = h[e2], ![e2] = h[i]], e2, B, M)

khp_delete(h, B, M) ==
    IF Len(h) <= 1 THEN <<>>
    ELSE khp_heapify([SubSeq(h, 1, Len(h) - 1) EXCEPT ![1] = h[Len(h)]], 1, B, M)

\* ---------------------------------------------------------------- flush
\* The bytes of a temporary file from record p + 1 on.
RECURSIVE BytesFrom(_, _)
BytesFrom(file, p) ==
    IF p >= Len(file) THEN 0 ELSE file[p + 1].size + BytesFrom(file, p + 1)

\* _buf_flush on state s.  how is "code" for the function as written; the
\* other values leave one of its steps out:
\*   "nosort"  no qsort            "noguard" no return on an empty buffer
\*   "keepmem" es->mem not reset   "nocheck" write's result not compared
\*   "ptrsize" every write transfers sizeof(void*) bytes
\* A null comparator is called as soon as qsort has two elements to compare,
\* and strdup of a null prefix dereferences it.  A write that fails
\* transfers one byte less than asked.
FlushWith(s, fault, how) ==
    IF Len(s.buf) = 0 /\ how # "noguard" THEN s
    ELSE IF how # "nosort" /\ cmp = "NULL" /\ Len(s.buf) >= 2 THEN Abort(s, "crash")
    ELSE IF ~tmp_prefix THEN Abort(s, "crash")
    ELSE
    LET sorted == IF how # "nosort" THEN qsort(s.buf, s.heapmem) ELSE s.buf
        n      == Len(s.blk) + 1
        id     == s.next_id
        wsize  == IF how = "ptrsize" THEN PtrSize ELSE dat_size
        torn   == fault = "write" /\ Len(sorted) > 0
        file   == [i \in 1..Len(sorted) |->
                     [val  |-> s.heapmem[sorted[i]].val,
                      size |-> IF torn /\ i = Len(sorted) THEN wsize - 1 ELSE wsize]]
        run    == [fd |-> n, pos |-> 0, dat |-> id, file |-> file]
    IN  IF fault = "mkstemp" THEN Fail(s, fault)
        ELSE IF fault = "fchmod"
            THEN [Fail(s, fault) EXCEPT !.visible = s.visible \cup {n}]
        ELSE IF torn /\ how # "nocheck" THEN Fail(s, fault)
        ELSE IF \E i \in 1..Len(sorted) : s.heapmem[sorted[i]].size # dat_size
            THEN Abort(s, "undef")
        ELSE IF fault = "lseek_flush" THEN Fail(s, fault)
        ELSE [s EXCEPT !.buf = <<>>,
                       !.mem = IF how = "keepmem" THEN @ ELSE 0,
                       !.blk = Append(s.blk, run),
                       !.heapmem = Malloc(Free(s.heapmem, {sorted[i] : i \in 1..Len(sorted)}),
                                          id, dat_size),
                       !.next_id = id + 1,
                       !.fds = s.fds \cup {n},
                       !.struck = IF torn THEN fault ELSE @]

buf_flush_nosort(s, fault) == FlushWith(s, fault, "nosort")

buf_flush_noguard(s, fault) == FlushWith(s, fault, "noguard")

buf_flush_keepmem(s, fault) == FlushWith(s, fault, "keepmem")

buf_flush_nocheck(s, fault) == FlushWith(s, fault, "nocheck")

buf_flush_ptrsize(s, fault) == FlushWith(s, fault, "ptrsize")

buf_flush(s, fault) == FlushWith(s, fault, "code")

\* ----------------------------------------------------------------- read
\* _blk_read on run i of state s: [n |-> what it returns, s |-> the state].
\* read() transfers dat_size bytes, or what is left of the file, or one byte
\* when it is cut short; marks says whether blk->fd is set to -1 after close.
ReadWith(s, i, fault, marks) ==
    LET b    == s.blk[i]
        left == BytesFrom(b.file, b.pos)
        want == IF left < dat_size THEN left ELSE dat_size
        got  == IF fault = "short_read" /\ want > 1 THEN 1 ELSE want
    IN
    IF b.fd = ClosedFd THEN [n |-> 0, s |-> s]
    ELSE IF fault = "read" THEN [n |-> -1, s |-> Fail(s, fault)]
    ELSE IF got = 0
        THEN IF fault = "close" THEN [n |-> 0, s |-> Fail(s, fault)]
             ELSE [n |-> 0, s |-> [s EXCEPT !.blk[i].fd = IF marks THEN ClosedFd ELSE @,
                                            !.fds = s.fds \ {b.fd},
                                            !.bad_close = @ \/ b.fd \notin s.fds]]
    ELSE IF b.dat = NULL THEN [n |-> -1, s |-> Fail(s, "read")]
    ELSE IF got < dat_size
        THEN [n |-> got,
              s |-> [s EXCEPT !.phase = "fatal", !.cause = "short_read",
                              !.struck = IF got < want THEN "short_read" ELSE @]]
    ELSE IF b.file[b.pos + 1].size # dat_size \/ s.heapmem[b.dat].size # dat_size
        THEN [n |-> dat_size, s |-> Abort(s, "undef")]
    ELSE [n |-> dat_size,
          s |-> [s EXCEPT !.blk[i].pos = b.pos + 1,
                          !.heapmem[b.dat].val = b.file[b.pos + 1].val]]

blk_read_nomark(s, i, fault) == ReadWith(s, i, fault, FALSE)

blk_read(s, i, fault) == ReadWith(s, i, fault, TRUE)

\* ------------------------------------------------------------ operations
SetArgs ==
    {<<"DAT_SIZE", n>> : n \in DatSizes} \cup {<<"MAX_MEM", m>> : m \in MemParses}
    \cup {<<"TMP_PREFIX", TRUE>>} \cup {<<"FUNC_CMP", c>> : c \in Cmps}

extsort_set(key, value) ==
    /\ dat_size' = IF key = "DAT_SIZE" THEN value ELSE dat_size
    /\ max_mem' = IF key = "MAX_MEM" THEN value ELSE max_mem
    /\ phase' = IF key = "MAX_MEM" /\ value <= 0 THEN "fatal" ELSE phase
    /\ cause' = IF key = "MAX_MEM" /\ value <= 0 THEN "parse" ELSE cause
    /\ tmp_prefix' = IF key = "TMP_PREFIX" THEN TRUE ELSE tmp_prefix
    /\ cmp' = IF key = "FUNC_CMP" THEN value ELSE cmp
    /\ UNCHANGED <<mem, buf, buf_alloc, blk, tmp_dat, bhp_init, bhp, heapmem,
                   next_id, fds, visible, pushed, out, ret, struck, bad_close, bad_free>>

extsort_init ==
    IF cmp = "NULL" \/ dat_size = 0
    THEN /\ phase' = "fatal"
         /\ cause' = "assert"
         /\ UNCHANGED <<cfgvars, mem, buf, buf_alloc, blk, tmp_dat, bhp_init, bhp,
                        heapmem, next_id, fds, visible, pushed, out, ret,
                        struck, bad_close, bad_free>>
    ELSE /\ tmp_prefix' = TRUE
         /\ tmp_dat' = next_id
         /\ heapmem' = Malloc(heapmem, next_id, dat_size)
         /\ next_id' = next_id + 1
         /\ UNCHANGED <<phase, dat_size, cmp, max_mem, mem, buf, buf_alloc, blk,
                        bhp_init, bhp, fds, visible, pushed, out, ret, histvars>>

\* The pointers extsort_destroy passes to free(), in order: every run's dat,
\* then tmp_dat.
DestroyFrees == [i \in 1..nblk |-> blk[i].dat] \o <<tmp_dat>>

\* free() of p[k] is wrong when the block is not allocated or was freed by an
\* earlier call of the same sequence; free(NULL) does nothing.
FreesWrongly(p) ==
    \E k \in 1..Len(p) :
        /\ p[k] # NULL
        /\ \/ p[k] \notin DOMAIN heapmem
           \/ \E j \in 1..(k - 1) : p[j] = p[k]

\* extsort_destroy: es itself is freed, its fields keep their last values.
\* es->buf and the records it still points to are not freed; khp_destroy
\* accepts the null heap of a session that was never sorted.  closes is the
\* set of runs whose descriptor is passed to close().
DestroyWith(closes) ==
    /\ phase' = "destroyed"
    /\ fds' = fds \ {blk[i].fd : i \in closes}
    /\ bad_close' = (bad_close \/ \E i \in closes : blk[i].fd \notin fds)
    /\ heapmem' = Free(heapmem, {DestroyFrees[k] : k \in 1..(nblk + 1)})
    /\ bad_free' = (bad_free \/ FreesWrongly(DestroyFrees))
    /\ UNCHANGED <<cfgvars, mem, buf, buf_alloc, blk, tmp_dat, bhp_init, bhp,
                   next_id, visible, pushed, out, ret, struck, cause>>

extsort_destroy_noclose == DestroyWith({})

extsort_destroy == DestroyWith({i \in 1..nblk : blk[i].fd # ClosedFd})

\* extsort_push of a record holding v, in a block of sz bytes the caller
\* allocated before the call; flushes is the test that guards _buf_flush.
\* (delta is an int and mem a size_t: neither wraps at the sizes of DatSizes.)
PushWith(v, sz, fault, flushes) ==
    LET dat   == next_id
        s0    == [CurState EXCEPT !.heapmem = heapmem @@ (dat :> [val |-> v, size |-> sz]),
                                  !.next_id = dat + 1]
        f     == IF flushes THEN buf_flush(s0, fault) ELSE s0
        delta == PtrSize + dat_size
        g     == IF f.phase = "live"
                 THEN [f EXCEPT !.buf = Append(f.buf, dat), !.mem = f.mem + delta]
                 ELSE f
    IN  /\ Apply(g)
        /\ buf_alloc' = IF g.phase = "live" THEN TRUE ELSE buf_alloc
        /\ pushed' = IF g.phase = "live" THEN Append(pushed, v) ELSE pushed
        /\ UNCHANGED <<cfgvars, tmp_dat, bhp_init, out, ret, bad_free>>

extsort_push_late(v, sz, fault) ==
    PushWith(v, sz, fault, nbuf > 0 /\ mem > max_mem)

extsort_push_reject(v, sz, fault) ==
    IF PtrSize + dat_size > max_mem
    THEN /\ phase' = "fatal"
         /\ cause' = "oversized"
         /\ UNCHANGED <<cfgvars, mem, buf, buf_alloc, blk, tmp_dat, bhp_init, bhp,
                        heapmem, next_id, fds, visible, pushed, out, ret,
                        struck, bad_close, bad_free>>
    ELSE PushWith(v, sz, fault, nbuf > 0 /\ mem + (PtrSize + dat_size) > max_mem)

extsort_push(v, sz, fault) ==
    PushWith(v, sz, fault, nbuf > 0 /\ mem + (PtrSize + dat_size) > max_mem)

\* The loop of extsort_sort, from run i on.
RECURSIVE SortLoop(_, _, _)
SortLoop(s, i, fault) ==
    IF i > Len(s.blk) THEN s
    ELSE IF fault = "lseek_sort" THEN Fail(s, fault)
    ELSE LET r == blk_read([s EXCEPT !.blk[i].pos = 0], i, fault) IN
         IF r.s.phase # "live" THEN r.s
         ELSE IF r.n = 0 THEN SortLoop(r.s, i + 1, fault)
         ELSE IF cmp = "NULL" /\ Len(r.s.bhp) >= 1 THEN Abort(r.s, "crash")
         ELSE SortLoop([r.s EXCEPT !.bhp = khp_insert(r.s.bhp, i, r.s.blk, r.s.heapmem)],
                       i + 1, fault)

\* extsort_sort, its loop starting at run first.
SortFrom(fault, first) ==
    LET f == buf_flush(CurState, fault)
        g == IF f.phase = "live" THEN SortLoop([f EXCEPT !.bhp = <<>>], first, fault) ELSE f
    IN  /\ Apply(g)
        /\ buf_alloc' = IF f.phase = "live" THEN FALSE ELSE buf_alloc
        /\ bhp_init' = IF f.phase = "live" THEN TRUE ELSE bhp_init
        /\ UNCHANGED <<cfgvars, tmp_dat, pushed, out, ret, bad_free>>

extsort_sort_from_second(fault) == SortFrom(fault, 2)

extsort_sort(fault) == SortFrom(fault, 1)

\* extsort_shift.  swap is "both" for the exchange of the scratch pointer and
\* the run's head pointer as written, "none" without it, "half" when only
\* es->tmp_dat is assigned; reinserts says whether a run that still has data
\* goes back into the heap.
ShiftWith(fault, swap, reinserts) ==
    IF ~bhp_init
    THEN /\ phase' = "crash"
         /\ UNCHANGED <<cfgvars, mem, buf, buf_alloc, blk, tmp_dat, bhp_init, bhp,
                        heapmem, next_id, fds, visible, pushed, out, ret, histvars>>
    ELSE IF Len(bhp) = 0
    THEN /\ ret' = NULL
         /\ UNCHANGED <<phase, cfgvars, mem, buf, buf_alloc, blk, tmp_dat, bhp_init,
                        bhp, heapmem, next_id, fds, visible, pushed, out, histvars>>
    ELSE
    LET i      == bhp[1]
        newtmp == IF swap = "none" THEN tmp_dat ELSE blk[i].dat
        res    == IF swap = "none" THEN blk[i].dat ELSE newtmp
        s1     == [CurState EXCEPT !.blk[i].dat = IF swap = "both" THEN tmp_dat ELSE @,
                                   !.bhp = khp_delete(bhp, blk, heapmem)]
        r      == blk_read(s1, i, fault)
        s2     == IF r.s.phase = "live" /\ r.n # 0 /\ reinserts
                  THEN [r.s EXCEPT !.bhp = khp_insert(r.s.bhp, i, r.s.blk, r.s.heapmem)]
                  ELSE r.s
    IN  /\ Apply(s2)
        /\ tmp_dat' = newtmp
        /\ ret' = IF s2.phase = "live" THEN res ELSE ret
        /\ out' = IF s2.phase = "live" THEN Append(out, s2.heapmem[res].val) ELSE out
        /\ UNCHANGED <<cfgvars, buf_alloc, bhp_init, pushed, bad_free>>

extsort_shift_noswap(fault) == ShiftWith(fault, "none", TRUE)

extsort_shift_halfswap(fault) == ShiftWith(fault, "half", TRUE)

extsort_shift_noreinsert(fault) == ShiftWith(fault, "both", FALSE)

extsort_shift(fault) == ShiftWith(fault, "both", TRUE)

\* ------------------------------------------------------- specifications
\* extsort_alloc: calloc, then the default budget.
Init ==
    /\ phase = "live"
    /\ dat_size = 0
    /\ cmp = "NULL"
    /\ max_mem = DefaultMaxMem
    /\ tmp_prefix = FALSE
    /\ mem = 0
    /\ buf = <<>>
    /\ buf_alloc = FALSE
    /\ blk = <<>>
    /\ tmp_dat = NULL
    /\ bhp_init = FALSE
    /\ bhp = <<>>
    /\ heapmem = <<>>
    /\ next_id = 1
    /\ fds = {}
    /\ visible = {}
    /\ pushed = <<>>
    /\ out = <<>>
    /\ ret = NULL
    /\ struck = "none"
    /\ cause = "none"
    /\ bad_close = FALSE
    /\ bad_free = FALSE

Inited == tmp_dat # NULL
Ingesting == phase = "live" /\ Inited /\ ~bhp_init
Retrieving == phase = "live" /\ Inited /\ bhp_init

\* A caller that follows the interface: configure, extsort_init, pushes,
\* extsort_sort, shifts; extsort_destroy at any point after extsort_init.
Configure == phase = "live" /\ ~Inited /\ \E a \in SetArgs : extsort_set(a[1], a[2])
Initialise == phase = "live" /\ ~Inited /\ extsort_init
Push ==
    /\ Ingesting
    /\ Len(pushed) < MaxPush
    /\ \E v \in Values, fault \in Faults : extsort_push(v, dat_size, fault)
Finalize == Ingesting /\ \E fault \in Faults : extsort_sort(fault)
Pull == Retrieving /\ \E fault \in Faults : extsort_shift(fault)
Destroy == phase = "live" /\ Inited /\ extsort_destroy

Next == Configure \/ Initialise \/ Push \/ Finalize \/ Pull \/ Destroy

Spec == Init /\ [][Next]_vars

\* A caller that may call anything while the session exists: extsort_set at
\* any time, the operations without extsort_init, extsort_shift before
\* extsort_sort.  Its records are blocks of any of the sizes.  (Pushing after
\* extsort_sort, which frees the buffer, is left out.)
AnySet == phase = "live" /\ \E a \in SetArgs : extsort_set(a[1], a[2])
AnyInit == phase = "live" /\ ~Inited /\ ~bhp_init /\ extsort_init
AnyPush ==
    /\ phase = "live" /\ ~bhp_init
    /\ Len(pushed) < MaxPushAny
    /\ \E v \in Values, sz \in DatSizes : extsort_push(v, sz, "none")
AnySort == phase = "live" /\ ~bhp_init /\ extsort_sort("none")
AnyShift == phase = "live" /\ extsort_shift("none")
AnyDestroy == phase = "live" /\ extsort_destroy

NextAnyOrder == AnySet \/ AnyInit \/ AnyPush \/ AnySort \/ AnyShift \/ AnyDestroy

SpecAnyOrder == Init /\ [][NextAnyOrder]_vars

\* ------------------------------------------------------------ properties
SeqToBag(s) ==
    [v \in {s[i] : i \in 1..Len(s)} |-> Cardinality({i \in 1..Len(s) : s[i] = v})]

\* Every run has been read to its end: the next extsort_shift returns NULL.
Drained == Retrieving /\ Len(bhp) = 0

\* The whole input sorted as one buffer by the same qsort.
OnePassSort(p) ==
    LET M == [i \in 1..Len(p) |-> [val |-> p[i], size |-> dat_size]]
        q == qsort([i \in 1..Len(p) |-> i], M)
    IN  [i \in 1..Len(p) |-> M[q[i]].val]

\* C1: the records returned by successive extsort_shift calls are
\* non-decreasing under the configured comparator, whatever the budget and
\* the number of runs.
C1_PulledNonDecreasing ==
    \A i, j \in 1..Len(out) : i < j => Cmp(cmp, out[i], out[j]) <= 0

C1_Witness ==
    /\ Drained
    /\ nblk >= 2
    /\ Len(out) >= 3
    /\ out[1] # out[Len(out)]
    /\ pushed # out

\* C2: when the runs are drained, the records returned are the records
\* pushed, as a multiset: as many pulls returned a record as there were
\* pushes, and none was lost, duplicated or altered.
C2_PulledIsPermutation ==
    Drained => /\ Len(out) = Len(pushed)
               /\ SeqToBag(out) = SeqToBag(pushed)

C2_Witness ==
    /\ Drained
    /\ nblk >= 2
    /\ \E i, j \in 1..Len(out) : i < j /\ out[i] = out[j]
    /\ \E i, j \in 1..Len(out) : out[i] # out[j]

\* C3: with more than one spilled run, the sequence pulled is the sequence a
\* single in-memory sort of the whole input gives.
C3_EqualsOnePassSort ==
    (Drained /\ nblk > 1) => out = OnePassSort(pushed)

C3_Witness ==
    /\ Drained
    /\ nblk >= 2
    /\ \E i \in 1..nblk : Len(blk[i].file) >= 2
    /\ \E i \in 1..Len(out) : out[i] # out[1]
    /\ pushed # out

\* C4: after every extsort_push the memory estimate is within max_mem,
\* unless the buffer holds exactly one record.
C4_BudgetRespected ==
    Ingesting => (mem <= max_mem \/ nbuf = 1)

C4_Witness ==
    /\ Ingesting
    /\ nblk >= 1
    /\ nbuf >= 2
    /\ mem <= max_mem
    /\ mem + PtrSize + dat_size > max_mem

\* C5: after extsort_destroy in the retrieval phase, no run's descriptor is
\* open, however many records were pulled.
C5_DestroyClosesRuns ==
    (phase = "destroyed" /\ bhp_init) => fds = {}

C5_Witness ==
    /\ phase = "destroyed"
    /\ bhp_init
    /\ Len(out) >= 1
    /\ Len(bhp) >= 2
    /\ \E i \in 1..nblk : blk[i].fd = ClosedFd
    /\ fds = {}

\* C6: after extsort_destroy at any point after extsort_init, the session
\* holds no open descriptor, no record block and no buffer.
C6_DestroyReleasesAll ==
    phase = "destroyed" => /\ fds = {}
                           /\ DOMAIN heapmem = {}
                           /\ ~buf_alloc

\* C7: the record extsort_shift returns is the head it took from the heap,
\* not overwritten by the read that advances the run in the same call, and
\* the block a pull returned changes only in a later pull.
C7_ReturnedRecordStable ==
    [][(Retrieving /\ Retrieving') =>
          /\ Len(out') = Len(out) + 1 =>
                 heapmem'[ret'].val = heapmem[blk[bhp[1]].dat].val
          /\ (ret # NULL /\ heapmem'[ret] # heapmem[ret]) =>
                 Len(out') = Len(out) + 1]_vars

C7_Witness ==
    /\ Retrieving
    /\ ret # NULL
    /\ \E i \in 1..nblk :
          /\ blk[i].pos >= 3
          /\ blk[i].fd # ClosedFd
          /\ heapmem[blk[i].dat].val # heapmem[ret].val

\* C8: no temporary file has a directory entry in any state a call can end
\* in, a fatal abort of the flush included.
C8_NoVisibleTempFile == visible = {}

\* C9: in a session whose record size or comparator is not set, no push,
\* sort or shift completes normally.
Unconfigured == cmp = "NULL" \/ dat_size = 0
C9_UnconfiguredCallsFail ==
    [][(phase = "live" /\ Unconfigured) =>
          (pushed' = pushed /\ bhp_init' = bhp_init /\ ret' = ret /\ out' = out)]_vars

\* C10: once a record has been pushed into an initialised session, dat_size
\* keeps its value: no later call changes it.
C10_DatSizeFixedAfterPush ==
    [][(Inited /\ pushed # <<>>) => dat_size' = dat_size]_vars

\* C11: in the retrieval phase the heap is empty exactly when every pushed
\* record has been returned (at once when nothing was pushed); extsort_shift
\* returns NULL exactly when the heap is empty, and such a call changes
\* nothing, so every later call returns NULL too; a call on a non-empty heap
\* that returns hands out one more record.
C11_EndOfDataIffAllReturned ==
    /\ [](Retrieving => (Len(bhp) = 0 <=> Len(out) = Len(pushed)))
    /\ [][(Retrieving /\ phase' = "live") =>
            IF Len(bhp) = 0
            THEN /\ ret' = NULL
                 /\ UNCHANGED <<phase, cfgvars, mem, buf, buf_alloc, blk, tmp_dat,
                                bhp_init, bhp, heapmem, next_id, fds, visible,
                                pushed, out, histvars>>
            ELSE /\ ret' # NULL
                 /\ Len(out') = Len(out) + 1]_vars

C11_Witness ==
    /\ Drained
    /\ ret = NULL
    /\ Len(out) >= 3
    /\ nblk >= 2

\* One record costs more than the whole budget.
Oversized == PtrSize + dat_size > max_mem

\* C12: when one record costs more than the budget, every extsort_push that
\* no system call fails in completes with the record accepted, a push on the
\* empty buffer flushes nothing and cannot fail, the buffer never holds more
\* than the one record last pushed while every earlier record is a run of
\* its own, and after extsort_sort the shifts return every pushed record, a
\* single one included.
C12_OversizedRecordTolerated ==
    /\ []((Oversized /\ Ingesting) =>
            /\ nbuf = (IF pushed = <<>> THEN 0 ELSE 1)
            /\ nblk = Len(pushed) - nbuf
            /\ \A i \in 1..nblk : Len(blk[i].file) = 1
            /\ nbuf = 1 => heapmem[buf[1]].val = pushed[Len(pushed)])
    /\ []((Oversized /\ Drained) =>
            /\ nblk = Len(pushed)
            /\ SeqToBag(out) = SeqToBag(pushed))
    /\ [][(Oversized /\ Ingesting /\ ~bhp_init' /\ phase' # "destroyed") =>
            /\ phase' = "live" \/ struck' # "none"
            /\ phase' = "live" => Len(pushed') = Len(pushed) + 1
            /\ nbuf = 0 => (phase' = "live" /\ nblk' = nblk /\ nbuf' = 1)]_vars

C12_Witness ==
    /\ Oversized
    /\ Drained
    /\ Len(pushed) >= 2
    /\ nblk = Len(pushed)
    /\ Len(out) = Len(pushed)
    /\ out # pushed

\* C13: the records stored in every run's temporary file are non-decreasing
\* under the comparator (the buffer is sorted before it is written), and no
\* later operation changes the stored records of a run that exists.
C13_RunsSortedAndImmutable ==
    /\ [](\A i \in 1..nblk : \A j, k \in 1..Len(blk[i].file) :
            j < k => Cmp(cmp, blk[i].file[j].val, blk[i].file[k].val) <= 0)
    /\ [][/\ nblk' >= nblk
          /\ \A i \in 1..nblk : blk'[i].file = blk[i].file]_vars

C13_Witness ==
    /\ Retrieving
    /\ Len(out) >= 2
    /\ nblk >= 2
    /\ Len(blk[1].file) >= 2
    /\ Cmp(cmp, pushed[1], pushed[2]) > 0

\* The records of run i that no extsort_shift has returned yet: its head and
\* what is still unread in its file; none once its descriptor is closed.
RunRemaining(i) ==
    IF blk[i].fd = ClosedFd THEN <<>>
    ELSE <<heapmem[blk[i].dat].val>> \o
         [k \in 1..(Len(blk[i].file) - blk[i].pos) |-> blk[i].file[blk[i].pos + k].val]

RECURSIVE NotReturned(_)
NotReturned(n) == IF n = 0 THEN <<>> ELSE NotReturned(n - 1) \o RunRemaining(n)

\* C14: in the retrieval phase, between shifts, the records not yet returned
\* are the heads and the unread records of the open runs, and the head of the
\* run at the top of the heap is a smallest of them under the comparator.
C14_HeapTopIsGlobalMinimum ==
    Retrieving =>
        /\ SeqToBag(out \o NotReturned(nblk)) = SeqToBag(pushed)
        /\ Len(bhp) > 0 =>
             \A k \in 1..Len(NotReturned(nblk)) :
                 Cmp(cmp, heapmem[blk[bhp[1]].dat].val, NotReturned(nblk)[k]) <= 0

C14_Witness ==
    /\ Retrieving
    /\ Len(out) >= 1
    /\ Len(bhp) >= 2
    /\ \E i \in 1..nblk : blk[i].fd # ClosedFd /\ blk[i].pos < Len(blk[i].file)
    /\ \E k \in 1..Len(NotReturned(nblk)) :
           Cmp(cmp, heapmem[blk[bhp[1]].dat].val, NotReturned(nblk)[k]) < 0

\* C15: throughout ingestion es->mem equals the number of buffered records
\* times (dat_size + sizeof(void*)); a push that does not flush adds one unit,
\* a push that flushes leaves the one unit of the record it appends, and after
\* the flush of extsort_sort the buffer is empty and the estimate zero.
C15_MemEstimateTracksBuffer ==
    /\ [](Ingesting => mem = nbuf * (dat_size + PtrSize))
    /\ [](Retrieving => (nbuf = 0 /\ mem = 0))
    /\ [][(Ingesting /\ Ingesting' /\ pushed' # pushed) =>
            IF nblk' = nblk
            THEN nbuf' = nbuf + 1 /\ mem' = mem + (dat_size + PtrSize)
            ELSE nbuf' = 1 /\ mem' = dat_size + PtrSize]_vars

C15_Witness ==
    /\ Ingesting
    /\ nblk >= 1
    /\ nbuf >= 2
    /\ mem = nbuf * (dat_size + PtrSize)

\* How many times run i is in the heap.
InHeap(i) == Cardinality({k \in 1..Len(bhp) : bhp[k] = i})

\* C16: from extsort_sort on, a run is in the heap, exactly once, iff its
\* descriptor is open; a run's descriptor is closed by the read that finds its
\* file at the end, and a run so closed is never reinserted, read, or changed
\* again, and close() is never called on its descriptor again, neither by a
\* later shift nor by extsort_destroy.
C16_HeapHoldsExactlyOpenRuns ==
    /\ [](Retrieving =>
            \A i \in 1..nblk :
                /\ InHeap(i) = (IF blk[i].fd # ClosedFd THEN 1 ELSE 0)
                /\ blk[i].fd # ClosedFd <=> i \in fds
                /\ blk[i].fd = ClosedFd => blk[i].pos = Len(blk[i].file))
    /\ [](~bad_close)
    /\ [][\A i \in 1..nblk :
            (bhp_init /\ blk[i].fd = ClosedFd) =>
                /\ blk'[i] = blk[i]
                /\ i \notin fds'
                /\ \A k \in 1..Len(bhp') : bhp'[k] # i]_vars

C16_Witness ==
    /\ phase = "destroyed"
    /\ bhp_init
    /\ \E i \in 1..nblk : blk[i].fd = ClosedFd
    /\ \E i \in 1..nblk : blk[i].fd # ClosedFd
    /\ fds = {}
    /\ ~bad_close

\* C17: when a system call on temporary storage fails (mkstemp, fchmod, a
\* short write, the lseek of the flush or of extsort_sort, read, a partial
\* read, close) the process is ended by error() inside the extsort_push,
\* extsort_sort or extsort_shift that made the call: the call does not
\* return, accepts no record and hands out none, and nothing runs afterwards.
C17_StorageFailureIsFatal ==
    /\ [](struck # "none" => (phase = "fatal" /\ cause = struck))
    /\ [][struck' # struck =>
            /\ phase = "live" /\ phase' = "fatal"
            /\ out' = out /\ ret' = ret /\ pushed' = pushed]_vars
    /\ [][struck # "none" => UNCHANGED vars]_vars

C17_Witness ==
    /\ phase = "fatal"
    /\ struck = "short_read"
    /\ bhp_init
    /\ Len(out) >= 1
    /\ Len(out) < Len(pushed)

\* C18: while no system call has failed, every run's temporary file holds
\* exactly dat_size bytes for each of its records, so a read returns dat_size
\* bytes or none; the partial-read error is reached only when a read was cut
\* short.
C18_NoPartialReadWithoutFault ==
    /\ cause = "short_read" => struck = "short_read"
    /\ struck = "none" =>
         \A i \in 1..nblk :
             /\ BytesFrom(blk[i].file, 0) = Len(blk[i].file) * dat_size
             /\ BytesFrom(blk[i].file, blk[i].pos) =
                    (Len(blk[i].file) - blk[i].pos) * dat_size

C18_Witness ==
    /\ Drained
    /\ struck = "none"
    /\ cause = "none"
    /\ nblk >= 2
    /\ \E i \in 1..nblk : Len(blk[i].file) >= 2

\* The number of records a push-triggered flush writes.
RunLength ==
    IF max_mem \div (PtrSize + dat_size) >= 1
    THEN max_mem \div (PtrSize + dat_size) ELSE 1

\* C19: no run is empty and there are at most as many runs as pushes; during
\* ingestion every run holds exactly RunLength records; extsort_sort on an
\* empty buffer creates no run, the run it creates otherwise holds between 1
\* and RunLength records, and it inserts every run into the heap.
C19_RunsNonEmptyAndAllInHeap ==
    /\ [](/\ nblk <= Len(pushed)
          /\ \A i \in 1..nblk : Len(blk[i].file) >= 1)
    /\ [](Ingesting => \A i \in 1..nblk : Len(blk[i].file) = RunLength)
    /\ [](Retrieving =>
            /\ \A i \in 1..(nblk - 1) : Len(blk[i].file) = RunLength
            /\ nblk >= 1 => Len(blk[nblk].file) \in 1..RunLength)
    /\ [][(Ingesting /\ Retrieving') =>
            /\ nblk' = (IF nbuf = 0 THEN nblk ELSE nblk + 1)
            /\ Len(bhp') = nblk'
            /\ \A i \in 1..nblk' : InHeap(i)' = 1]_vars

C19_Witness ==
    /\ Retrieving
    /\ out = <<>>
    /\ nblk >= 2
    /\ Len(bhp) = nblk
    /\ Len(blk[1].file) = RunLength
    /\ Len(blk[nblk].file) < RunLength

\* The blocks held by the scratch slot and by the head slots of the runs.
SlotSet == {tmp_dat} \cup {blk[i].dat : i \in 1..nblk}

\* C20: in a live session the scratch slot and the head slots of the runs are
\* pairwise distinct allocated blocks, and with the buffered records they are
\* all the blocks allocated; a shift only permutes them; extsort_destroy
\* frees every one of them, none twice and none that is not allocated.
C20_SlotsDistinctAndFreedOnce ==
    /\ []((phase = "live" /\ Inited) =>
            /\ Cardinality(SlotSet) = nblk + 1
            /\ SlotSet \cap {buf[k] : k \in 1..nbuf} = {}
            /\ SlotSet \cup {buf[k] : k \in 1..nbuf} = DOMAIN heapmem)
    /\ [][(Retrieving /\ Retrieving') =>
            /\ SlotSet' = SlotSet
            /\ ret' # NULL => ret' = tmp_dat']_vars
    /\ [](~bad_free)
    /\ [](phase = "destroyed" => SlotSet \cap DOMAIN heapmem = {})

C20_Witness ==
    /\ phase = "destroyed"
    /\ bhp_init
    /\ nblk >= 2
    /\ Len(out) >= 2
    /\ \E i \in 1..nblk : blk[i].dat < tmp_dat
    /\ SlotSet \cap DOMAIN heapmem = {}
    /\ ~bad_free

====
